---- MODULE Spec2Model ----
(***************************************************************************)
(* Model of the chat client of agentic_chatbot: the Chat component         *)
(* (src/unnamed/part_000) with its WebSocket handlers, the setMessages     *)
(* reducer of websocket.onmessage and sendMessage.                         *)
(*                                                                         *)
(* A transcript entry is a JavaScript value: an object (the spread of the  *)
(* outbound messageData plus user: "You", or the parsed inbound event) or, *)
(* because JSON.parse accepts it, null.  Every entry is written as one     *)
(* record shape; a field the object does not carry holds the Absent value  *)
(* of its type.                                                            *)
(***************************************************************************)
EXTENDS Integers, Sequences, FiniteSets, TLC

(* ---- bounds of the model ---------------------------------------------- *)
MaxEvents == 3
MaxSubmits == 2
MaxClock == 1
MaxPending == 2
MaxLen == 5
MaxItems == 2

(* ---- value domains ---------------------------------------------------- *)
\* Text typed into the input box, as sequences of characters.
Inputs == { <<>>, <<" ">>, <<" ", "a">> }
\* chain_of_thought as it appears in an event object.
CotValues == { "true", "false", "absent" }

NoText == <<>>
NoId == -1
NoMessage == 0
NoTurn == 0

\* JSON null, as JSON.parse("null") returns it.
NullData ==
  [ json |-> "null", user |-> "absent", chain_of_thought |-> "absent",
    message |-> NoMessage, id |-> NoId, user_id |-> "absent",
    session_id |-> "absent", user_message |-> NoText, search |-> FALSE,
    turn |-> NoTurn ]

\* An inbound event object; turn names the request it answers (a passthrough
\* field the client never reads).
EventData(cot, m, t) ==
  [ json |-> "object", user |-> "absent", chain_of_thought |-> cot,
    message |-> m, id |-> NoId, user_id |-> "absent",
    session_id |-> "absent", user_message |-> NoText, search |-> FALSE,
    turn |-> t ]

\* const messageData = { id: Date.now(), user_id, session_id, user_message, search }
MessageData(clock, text, search) ==
  [ json |-> "object", user |-> "absent", chain_of_thought |-> "absent",
    message |-> NoMessage, id |-> clock, user_id |-> "user123",
    session_id |-> "session123", user_message |-> text, search |-> search,
    turn |-> NoTurn ]

\* { ...messageData, user: "You" }
UserEntry(md) == [ md EXCEPT !.user = "You" ]

\* A text frame: ok says whether JSON.parse accepts event.data.
InvalidFrame == [ ok |-> FALSE, data |-> NullData ]
ValidFrame(d) == [ ok |-> TRUE, data |-> d ]

(* ---- pure helpers ----------------------------------------------------- *)
\* msg?.chain_of_thought, as a truth value
Cot(msg) == msg.json = "object" /\ msg.chain_of_thought = "true"
\* msg?.user === "You"
IsYou(msg) == msg.json = "object" /\ msg.user = "You"

RECURSIVE TrimStart(_)
TrimStart(s) == IF s # <<>> /\ Head(s) = " " THEN TrimStart(Tail(s)) ELSE s
RECURSIVE TrimEnd(_)
TrimEnd(s) ==
  IF s # <<>> /\ s[Len(s)] = " " THEN TrimEnd(SubSeq(s, 1, Len(s) - 1)) ELSE s
\* String.prototype.trim
Trim(s) == TrimEnd(TrimStart(s))

\* the filter callback of the reasoning branch
KeepOnReasoning_KeepAll(msg) == TRUE
KeepOnReasoning(msg) == Cot(msg) \/ IsYou(msg)

\* Array.prototype.filter with the callback above
RECURSIVE FilterKept(_)
FilterKept(arr) ==
  IF arr = <<>> THEN <<>>
  ELSE IF KeepOnReasoning(Head(arr))
       THEN <<Head(arr)>> \o FilterKept(Tail(arr))
       ELSE FilterKept(Tail(arr))

\* if (data?.chain_of_thought) return [...prev.filter(...), data]
ReasoningBranch_DataFirst(prev, data) == <<data>> \o FilterKept(prev)
ReasoningBranch_ReplacePlaceholder(prev, data) ==
  SelectSeq(prev, IsYou) \o <<data>>
ReasoningBranch(prev, data) == FilterKept(prev) \o <<data>>

\* else: override the last entry when it is neither reasoning nor the user's
FinalBranch_AlwaysAppend(prev, data) == Append(prev, data)
FinalBranch_OverwriteAnyAssistant(prev, data) ==
  IF Len(prev) > 0 /\ ~IsYou(prev[Len(prev)])
  THEN SubSeq(prev, 1, Len(prev) - 1) \o <<data>>
  ELSE Append(prev, data)
FinalBranch(prev, data) ==
  IF Len(prev) > 0 /\ ~Cot(prev[Len(prev)]) /\ ~IsYou(prev[Len(prev)])
  THEN SubSeq(prev, 1, Len(prev) - 1) \o <<data>>
  ELSE Append(prev, data)

\* the updater passed to setMessages in websocket.onmessage
Reduce(prev, data) ==
  IF Cot(data) THEN ReasoningBranch(prev, data) ELSE FinalBranch(prev, data)

\* {!msg?.chain_of_thought && msg.user !== "You" && (<spinner and note>)}:
\* whether the entry is rendered with the spinner and chain_of_thought_message
ShowsSpinner_WhenFlagged(msg) == Cot(msg) /\ msg.user # "You"
ShowsSpinner(msg) == ~Cot(msg) /\ msg.user # "You"

(* ---- state ------------------------------------------------------------ *)
VARIABLES
  messages,       \* useState([]): the transcript
  input,          \* useState(""): the input buffer
  loading,        \* useState(false): the pending flag
  ws,             \* useState(null): "null" or "socket"
  searchEnabled,  \* useState(false): the search toggle
  mounted,        \* whether the component is still mounted
  readyState,     \* WebSocket.readyState of the socket, "NONE" before it exists
  now,            \* the value Date.now() returns
  sent,           \* the requests ws.send put on the wire
  serverTurn,     \* the request the server's latest event answered
  nEvents,        \* frames delivered so far
  runKind,        \* history: kind of the current run of consecutive events
  runBase,        \* history: the transcript when the run began
  runEvents,      \* history: the events of the run, in arrival order
  accepted,       \* history: entries of the submissions made non-blank on an open connection
  latest,         \* history: the entry most recently handed to setMessages, if any
  queue,          \* setMessages updates React has queued and not yet applied
  pendingInput,   \* the queued setInput value, if any
  pendingLoading, \* whether a setLoading(true) is queued
  log,            \* history: every setMessages call, in call order
  rawText,        \* formatMessage: its argument
  rows,           \* formatMessage: the rows it returned
  rendered,       \* formatMessage: whether it has returned
  results,        \* SearchResults: its results prop
  view,           \* SearchResults: the categories and cards it rendered
  shaped          \* SearchResults: whether it has rendered

vars == << messages, input, loading, ws, searchEnabled, mounted, readyState, now,
           sent, serverTurn, nEvents, runKind, runBase, runEvents,
           accepted, latest, queue, pendingInput, pendingLoading, log,
           rawText, rows, rendered, results, view, shaped >>

batchVars == << queue, pendingInput, pendingLoading, log >>
renderVars == << rawText, rows, rendered >>
searchVars == << results, view, shaped >>

histVars == << runKind, runBase, runEvents, accepted, latest >>

NumUser(arr) == Len(SelectSeq(arr, IsYou))

\* The requests the server may answer next: none (turn 0) while no request
\* has reached it, afterwards one not older than the one it answered last.
Turns ==
  IF sent = <<>> THEN { NoTurn }
  ELSE { t \in 1 .. Len(sent) : t >= serverTurn }

\* The frames the server may deliver next: unparseable text, the JSON text
\* "null", or an event object.  The k-th frame carries the k-th assistant
\* text, so every event is told apart from the others.
Frames ==
  { InvalidFrame, ValidFrame(NullData) } \cup
  { ValidFrame(EventData(c, nEvents + 1, t)) : c \in CotValues, t \in Turns }

ChatInit ==
  /\ messages = <<>>
  /\ input = <<>>
  /\ loading = FALSE
  /\ ws = "null"
  /\ searchEnabled = FALSE
  /\ mounted = TRUE
  /\ readyState = "NONE"
  /\ now = 0
  /\ sent = <<>>
  /\ serverTurn = 0
  /\ nEvents = 0
  /\ runKind = "none"
  /\ runBase = <<>>
  /\ runEvents = <<>>
  /\ accepted = <<>>
  /\ latest = <<>>

\* nothing queued
BatchIdle ==
  /\ queue = <<>>
  /\ pendingInput = <<>>
  /\ pendingLoading = FALSE
  /\ log = <<>>

\* formatMessage not called
RenderIdle == rawText = <<>> /\ rows = <<>> /\ rendered = FALSE

\* SearchResults not rendered
SearchIdle == results = <<>> /\ view = <<>> /\ shaped = FALSE

Init == ChatInit /\ BatchIdle /\ RenderIdle /\ SearchIdle

(* ---- operations ------------------------------------------------------- *)
\* the mount effect: new WebSocket(...), handlers, setWs(websocket)
Mount ==
  /\ mounted /\ ws = "null"
  /\ ws' = "socket"
  /\ readyState' = "CONNECTING"
  /\ UNCHANGED << messages, input, loading, searchEnabled, mounted, now, sent,
                  serverTurn, nEvents >>
  /\ UNCHANGED histVars
  /\ UNCHANGED << batchVars, renderVars, searchVars >>

\* websocket.onopen: the connection is established
onopen ==
  /\ readyState = "CONNECTING"
  /\ readyState' = "OPEN"
  /\ UNCHANGED << messages, input, loading, ws, searchEnabled, mounted, now,
                  sent, serverTurn, nEvents >>
  /\ UNCHANGED histVars
  /\ UNCHANGED << batchVars, renderVars, searchVars >>

\* websocket.onmessage
onmessage(frame) ==
  LET data == frame.data
      wellFormed == frame.ok /\ data.json = "object"
      kind == IF ~wellFormed THEN "none"
              ELSE IF Cot(data) THEN "reasoning" ELSE "final"
  IN
  /\ mounted /\ readyState = "OPEN" /\ nEvents < MaxEvents
  /\ nEvents' = nEvents + 1
     \* JSON.parse throws on unparseable text, before setMessages is reached
  /\ messages' = IF frame.ok THEN Reduce(messages, data) ELSE messages
  /\ serverTurn' = IF wellFormed THEN data.turn ELSE serverTurn
  /\ runKind' = kind
  /\ runBase' = IF kind = "none" THEN <<>>
                ELSE IF kind = runKind THEN runBase ELSE messages
  /\ runEvents' = IF kind = "none" THEN <<>>
                  ELSE IF kind = runKind THEN Append(runEvents, data)
                  ELSE <<data>>
  /\ latest' = IF frame.ok THEN <<data>> ELSE latest
  /\ UNCHANGED << input, loading, ws, searchEnabled, mounted, readyState, now,
                  sent, accepted >>
  /\ UNCHANGED << batchVars, renderVars, searchVars >>

\* the server starts the closing handshake: readyState becomes CLOSING
closingHandshake ==
  /\ readyState = "OPEN"
  /\ readyState' = "CLOSING"
  /\ UNCHANGED << messages, input, loading, ws, searchEnabled, mounted, now,
                  sent, serverTurn, nEvents >>
  /\ UNCHANGED histVars
  /\ UNCHANGED << batchVars, renderVars, searchVars >>

\* websocket.onclose = () => console.log("WebSocket disconnected")
onclose ==
  /\ readyState \in { "CONNECTING", "OPEN", "CLOSING" }
  /\ readyState' = "CLOSED"
  /\ runKind' = "none" /\ runBase' = <<>> /\ runEvents' = <<>>
  /\ UNCHANGED << messages, input, loading, ws, searchEnabled, mounted, now,
                  sent, serverTurn, nEvents, accepted, latest >>
  /\ UNCHANGED << batchVars, renderVars, searchVars >>

\* the effect's cleanup: return () => websocket.close()
Unmount ==
  /\ mounted /\ ws = "socket"
  /\ mounted' = FALSE
  /\ readyState' = IF readyState \in { "CONNECTING", "OPEN" }
                   THEN "CLOSING" ELSE readyState
  /\ UNCHANGED << messages, input, loading, ws, searchEnabled, now, sent,
                  serverTurn, nEvents >>
  /\ UNCHANGED histVars
  /\ UNCHANGED << batchVars, renderVars, searchVars >>

\* onChange={(e) => setInput(e.target.value)}
setInput(text) ==
  /\ mounted
  /\ input' = text
  /\ UNCHANGED << messages, loading, ws, searchEnabled, mounted, readyState,
                  now, sent, serverTurn, nEvents >>
  /\ UNCHANGED histVars
  /\ UNCHANGED << batchVars, renderVars, searchVars >>

\* onValueChange={setSearchEnabled}
setSearchEnabled(v) ==
  /\ mounted
  /\ searchEnabled' = v
  /\ UNCHANGED << messages, input, loading, ws, mounted, readyState, now, sent,
                  serverTurn, nEvents >>
  /\ UNCHANGED histVars
  /\ UNCHANGED << batchVars, renderVars, searchVars >>

\* the clock advances
Tick ==
  /\ now < MaxClock
  /\ now' = now + 1
  /\ UNCHANGED << messages, input, loading, ws, searchEnabled, mounted,
                  readyState, sent, serverTurn, nEvents >>
  /\ UNCHANGED histVars
  /\ UNCHANGED << batchVars, renderVars, searchVars >>

\* sendMessage.  ws.send throws InvalidStateError while the socket is
\* CONNECTING and silently discards the data once it is CLOSING or CLOSED.
sendMessage ==
  LET md == MessageData(now, input, searchEnabled)
      taken == ws # "null" /\ Trim(input) # <<>>
      done == taken /\ readyState # "CONNECTING"
      onOpen == ws # "null" /\ readyState = "OPEN" /\ Trim(input) # <<>>
  IN
  /\ mounted /\ NumUser(messages) < MaxSubmits
  /\ sent' = IF done /\ readyState = "OPEN" THEN Append(sent, md) ELSE sent
  /\ messages' = IF done THEN Append(messages, UserEntry(md)) ELSE messages
  /\ input' = IF done THEN <<>> ELSE input
  /\ loading' = IF done THEN TRUE ELSE loading
  /\ runKind' = "none" /\ runBase' = <<>> /\ runEvents' = <<>>
  /\ accepted' = IF onOpen THEN Append(accepted, UserEntry(md)) ELSE accepted
  /\ latest' = IF done THEN << UserEntry(md) >> ELSE latest
  /\ UNCHANGED << ws, searchEnabled, mounted, readyState, now, serverTurn,
                  nEvents >>
  /\ UNCHANGED << batchVars, renderVars, searchVars >>

Next ==
  \/ Mount
  \/ onopen
  \/ \E frame \in Frames : onmessage(frame)
  \/ closingHandshake
  \/ onclose
  \/ Unmount
  \/ \E text \in Inputs : setInput(text)
  \/ \E v \in BOOLEAN : setSearchEnabled(v)
  \/ Tick
  \/ sendMessage

Spec == Init /\ [][Next]_vars

\* The reducer and the connection with the clock and the search toggle held
\* still: neither onmessage nor the guard of sendMessage reads id or search.
NextReducer ==
  \/ Mount
  \/ onopen
  \/ \E frame \in Frames : onmessage(frame)
  \/ closingHandshake
  \/ onclose
  \/ Unmount
  \/ \E text \in Inputs : setInput(text)
  \/ sendMessage

ReducerSpec == Init /\ [][NextReducer]_vars

(* ---- queued state updates --------------------------------------------- *)
(* A handler does not change React state itself: setMessages, setInput and *)
(* setLoading queue an update, and the next render applies the queued      *)
(* updates in call order.  An update is a function of the state before it  *)
(* or a plain value.  Until the render, handlers read the state of the     *)
(* last render.                                                            *)

\* setMessages((prev) => [...prev, { ...messageData, user: "You" }])
SubmitUpdate_StaleValue(cur, entry) ==
  [ form |-> "value", op |-> "append", arg |-> entry, value |-> Append(cur, entry) ]
SubmitUpdate(cur, entry) ==
  [ form |-> "function", op |-> "append", arg |-> entry, value |-> <<>> ]

\* setMessages((prev) => { ... }) of websocket.onmessage
EventUpdate(cur, data) ==
  [ form |-> "function", op |-> "reduce", arg |-> data, value |-> <<>> ]

\* one queued update applied to the state before it
ApplyUpdate(before, u) ==
  IF u.form = "value" THEN u.value
  ELSE IF u.op = "append" THEN Append(before, u.arg)
  ELSE Reduce(before, u.arg)

\* the queue applied in call order
RECURSIVE ApplyQueue(_, _)
ApplyQueue(before, q) ==
  IF q = <<>> THEN before
  ELSE ApplyQueue(ApplyUpdate(before, Head(q)), Tail(q))

LogEntry(u) == [ op |-> u.op, arg |-> u.arg ]

\* onChange={(e) => setInput(e.target.value)}, the update queued
queuedSetInput(text) ==
  /\ mounted
  /\ pendingInput' = << text >>
  /\ UNCHANGED << messages, input, loading, ws, searchEnabled, mounted,
                  readyState, now, sent, serverTurn, nEvents >>
  /\ UNCHANGED << queue, pendingLoading, log >>
  /\ UNCHANGED << histVars, renderVars, searchVars >>

\* websocket.onmessage, the update queued
queuedOnmessage(frame) ==
  LET data == frame.data
      u == EventUpdate(messages, data)
  IN
  /\ mounted /\ readyState = "OPEN" /\ nEvents < MaxEvents
  /\ Len(queue) < MaxPending
  /\ nEvents' = nEvents + 1
  /\ queue' = IF frame.ok THEN Append(queue, u) ELSE queue
  /\ log' = IF frame.ok THEN Append(log, LogEntry(u)) ELSE log
  /\ serverTurn' = IF frame.ok /\ data.json = "object" THEN data.turn
                   ELSE serverTurn
  /\ UNCHANGED << messages, input, loading, ws, searchEnabled, mounted,
                  readyState, now, sent >>
  /\ UNCHANGED << pendingInput, pendingLoading >>
  /\ UNCHANGED << histVars, renderVars, searchVars >>

\* sendMessage, its updates queued
queuedSendMessage ==
  LET md == MessageData(now, input, searchEnabled)
      done == ws # "null" /\ Trim(input) # <<>> /\ readyState # "CONNECTING"
      u == SubmitUpdate(messages, UserEntry(md))
  IN
  /\ mounted /\ Len(queue) < MaxPending
  /\ Len(SelectSeq(log, LAMBDA l : l.op = "append")) < MaxSubmits
  /\ sent' = IF done /\ readyState = "OPEN" THEN Append(sent, md) ELSE sent
  /\ queue' = IF done THEN Append(queue, u) ELSE queue
  /\ log' = IF done THEN Append(log, LogEntry(u)) ELSE log
  /\ pendingInput' = IF done THEN << NoText >> ELSE pendingInput
  /\ pendingLoading' = IF done THEN TRUE ELSE pendingLoading
  /\ UNCHANGED << messages, input, loading, ws, searchEnabled, mounted,
                  readyState, now, serverTurn, nEvents >>
  /\ UNCHANGED << histVars, renderVars, searchVars >>

\* the next render of Chat: the queued updates become the state
Rerender ==
  /\ mounted
  /\ queue # <<>> \/ pendingInput # <<>> \/ pendingLoading
  /\ messages' = ApplyQueue(messages, queue)
  /\ input' = IF pendingInput # <<>> THEN pendingInput[1] ELSE input
  /\ loading' = (loading \/ pendingLoading)
  /\ queue' = <<>>
  /\ pendingInput' = <<>>
  /\ pendingLoading' = FALSE
  /\ UNCHANGED << ws, searchEnabled, mounted, readyState, now, sent,
                  serverTurn, nEvents, log >>
  /\ UNCHANGED << histVars, renderVars, searchVars >>

\* The frames delivered while updates are queued: those JSON.parse accepts,
\* flagged or not.
BatchFrames ==
  { f \in Frames : f.ok /\ f.data.chain_of_thought # "absent" } \cup
  { ValidFrame(NullData) }

NextBatch ==
  \/ Mount
  \/ onopen
  \/ \E text \in Inputs : queuedSetInput(text)
  \/ \E frame \in BatchFrames : queuedOnmessage(frame)
  \/ queuedSendMessage
  \/ Rerender

BatchSpec == Init /\ [][NextBatch]_vars

(* ---- formatMessage ---------------------------------------------------- *)
\* The characters a rendered text is made of: the delimiter character, a
\* letter and the line break.
Chars == { "*", "a", "\n" }
Texts == UNION { [ 1 .. n -> Chars ] : n \in 0 .. MaxLen }

\* the first line break of s, 0 when it has none
RECURSIVE FirstBreak(_, _)
FirstBreak(s, i) ==
  IF i > Len(s) THEN 0
  ELSE IF s[i] = "\n" THEN i ELSE FirstBreak(s, i + 1)

\* text.split("\n")
RECURSIVE SplitLines_DropEmpty(_)
SplitLines_DropEmpty(s) ==
  LET b == FirstBreak(s, 1)
      head == IF b = 0 THEN s ELSE SubSeq(s, 1, b - 1)
      rest == IF b = 0 THEN <<>> ELSE SplitLines_DropEmpty(SubSeq(s, b + 1, Len(s)))
  IN IF head = <<>> THEN rest ELSE << head >> \o rest
RECURSIVE SplitLines(_)
SplitLines(s) ==
  LET b == FirstBreak(s, 1)
  IN IF b = 0 THEN << s >>
     ELSE << SubSeq(s, 1, b - 1) >> \o SplitLines(SubSeq(s, b + 1, Len(s)))

\* "**" at position p of line
StarsAt(line, p) ==
  p >= 1 /\ p + 1 <= Len(line) /\ line[p] = "*" /\ line[p + 1] = "*"

\* /(\*\*.*?\*\*)/ tried at position p: the position of the closing "**",
\* the nearest one at p + 2 or later, 0 when the pattern does not match at p
RECURSIVE CloseFrom(_, _)
CloseFrom(line, q) ==
  IF q + 1 > Len(line) THEN 0
  ELSE IF StarsAt(line, q) THEN q ELSE CloseFrom(line, q + 1)
MatchAt(line, p) == IF StarsAt(line, p) THEN CloseFrom(line, p + 2) ELSE 0

\* the leftmost position at or after p where the pattern matches, 0 if none
RECURSIVE FirstMatch(_, _)
FirstMatch(line, p) ==
  IF p > Len(line) THEN 0
  ELSE IF MatchAt(line, p) # 0 THEN p ELSE FirstMatch(line, p + 1)

\* line.split(/(\*\*.*?\*\*)/): the text before each match, the match (the
\* capture group), and the text after the last match
RECURSIVE SplitChunks(_)
SplitChunks(line) ==
  LET p == FirstMatch(line, 1)
      q == MatchAt(line, p)
  IN IF p = 0 THEN << line >>
     ELSE << SubSeq(line, 1, p - 1), SubSeq(line, p, q + 1) >>
          \o SplitChunks(SubSeq(line, q + 2, Len(line)))

\* chunk.startsWith("**"), chunk.endsWith("**"), chunk.slice(2, -2)
StartsWithStars(chunk) == StarsAt(chunk, 1)
EndsWithStars(chunk) == StarsAt(chunk, Len(chunk) - 1)
Slice2(chunk) == SubSeq(chunk, 3, Len(chunk) - 2)

Strong(t) == [ kind |-> "strong", text |-> t ]
PlainText(t) == [ kind |-> "text", text |-> t ]

\* the callback mapping a chunk to <strong>...</strong> or to itself
RenderChunk(chunk) ==
  IF StartsWithStars(chunk) /\ EndsWithStars(chunk)
  THEN Strong(Slice2(chunk))
  ELSE PlainText(chunk)

\* one <span>: the segments of a line, followed by <br />
RenderLine(line) ==
  LET chunks == SplitChunks(line)
  IN [ j \in 1 .. Len(chunks) |-> RenderChunk(chunks[j]) ]

\* formatMessage(text): one row per line
FormatMessage(t) ==
  LET lines == SplitLines(t)
  IN [ i \in 1 .. Len(lines) |-> RenderLine(lines[i]) ]

\* a call of formatMessage
formatMessage ==
  /\ ~rendered
  /\ rows' = FormatMessage(rawText)
  /\ rendered' = TRUE
  /\ UNCHANGED << messages, input, loading, ws, searchEnabled, mounted,
                  readyState, now, sent, serverTurn, nEvents, rawText >>
  /\ UNCHANGED << histVars, batchVars, searchVars >>

RenderInit ==
  /\ ChatInit /\ BatchIdle /\ SearchIdle
  /\ rawText \in Texts
  /\ rows = <<>>
  /\ rendered = FALSE

NextRender == formatMessage

RenderSpec == RenderInit /\ [][NextRender]_vars

(* ---- SearchResults ---------------------------------------------------- *)
\* The keys of the results object, in Object.keys order.
Categories == << "videos", "news" >>

\* An element of a category's array: null, or an item object with its image
\* (NoImage when absent) and its thumbnails (empty when absent).
NoImage == ""
NullItem == [ json |-> "null", image |-> NoImage, thumbnails |-> <<>> ]
ItemObject(image, thumbnails) ==
  [ json |-> "object", image |-> image, thumbnails |-> thumbnails ]
Items ==
  { NullItem } \cup
  { ItemObject(i, t) : i \in { NoImage, "img" },
                       t \in { <<>>, << "t1" >>, << "t1", "t2" >> } }

\* The value under a key: null (present FALSE) or an array of elements.
CategoryValues ==
  { [ present |-> FALSE, items |-> <<>> ] } \cup
  { [ present |-> TRUE, items |-> a ] :
      a \in UNION { [ 1 .. n -> Items ] : n \in 0 .. MaxItems } }

\* results[category] && results[category].length > 0
CategoryShown(value) == value.present /\ Len(value.items) > 0

\* .filter(Boolean)
RECURSIVE FilterBoolean(_)
FilterBoolean(arr) ==
  IF arr = <<>> THEN <<>>
  ELSE IF Head(arr).json # "null"
       THEN << Head(arr) >> \o FilterBoolean(Tail(arr))
       ELSE FilterBoolean(Tail(arr))

\* the <img> elements of one card: item?.image && <img src={item?.image}/>,
\* then item?.thumbnails?.length > 0 && <img src={item?.thumbnails[0]}/>
CardImages(item) ==
  (IF item.image # NoImage THEN << item.image >> ELSE <<>>) \o
  (IF Len(item.thumbnails) > 0 THEN << item.thumbnails[1] >> ELSE <<>>)

\* category === "videos" ? "View" : "Read more"
ActionLabel(category) == IF category = "videos" THEN "View" ELSE "Read more"

\* one card of a category
Card(category, item) ==
  [ images |-> CardImages(item), label |-> ActionLabel(category) ]

\* the block rendered for one category: its heading and its cards
CategoryBlock(category, value) ==
  LET kept == FilterBoolean(value.items)
  IN [ category |-> category,
       cards |-> [ k \in 1 .. Len(kept) |-> Card(category, kept[k]) ] ]

\* Object.keys(results).filter(...).map(...)
RECURSIVE ShapeFrom(_, _)
ShapeFrom(res, c) ==
  IF c > Len(Categories) THEN <<>>
  ELSE IF CategoryShown(res[c])
       THEN << CategoryBlock(Categories[c], res[c]) >> \o ShapeFrom(res, c + 1)
       ELSE ShapeFrom(res, c + 1)

\* a render of <SearchResults results={...} />
SearchResults ==
  /\ ~shaped
  /\ view' = ShapeFrom(results, 1)
  /\ shaped' = TRUE
  /\ UNCHANGED << messages, input, loading, ws, searchEnabled, mounted,
                  readyState, now, sent, serverTurn, nEvents, results >>
  /\ UNCHANGED << histVars, batchVars, renderVars >>

SearchInit ==
  /\ ChatInit /\ BatchIdle /\ RenderIdle
  /\ results \in [ 1 .. Len(Categories) -> CategoryValues ]
  /\ view = <<>>
  /\ shaped = FALSE

NextSearch == SearchResults

SearchSpec == SearchInit /\ [][NextSearch]_vars

(* ---- vocabulary of the claims ----------------------------------------- *)
IsUserEntry(e) == e.user = "You"
IsFlagged(e) == e.chain_of_thought = "true"
IsAssistantEntry(e) == e.json = "object" /\ e.user # "You"
IsFinalEvent(e) == e.json = "object" /\ e.chain_of_thought \in { "false", "absent" }
IsRetained(e) == IsUserEntry(e) \/ IsFlagged(e)
Entries(arr) == { arr[i] : i \in 1 .. Len(arr) }
IsPrefix(a, b) == Len(a) <= Len(b) /\ SubSeq(b, 1, Len(a)) = a

(* ---- C1 ---------------------------------------------------------------- *)
\* C1 as claimed: after a run of consecutive reasoning events the transcript
\* is the user entries present before the run followed by exactly one
\* reasoning entry, the last event of the run.
C1_RunLeavesOneReasoningEntry ==
  runKind = "reasoning" =>
    messages = SelectSeq(runBase, IsUserEntry) \o << runEvents[Len(runEvents)] >>

\* C1 amended: after a run of n >= 1 consecutive reasoning events the
\* transcript is the user entries and the chain_of_thought entries present
\* before the run, in order, followed by all n events of the run in arrival
\* order; every reasoning event is appended and none replaces an earlier one.
C1_RunAppendsEveryReasoningEvent ==
  runKind = "reasoning" =>
    /\ messages = SelectSeq(runBase, IsRetained) \o runEvents
    /\ messages[Len(messages)] = runEvents[Len(runEvents)]

C1_Witness ==
  /\ runKind = "reasoning"
  /\ Len(runEvents) >= 2
  /\ \E e \in Entries(runBase) : IsUserEntry(e)
  /\ \E e \in Entries(runBase) : IsAssistantEntry(e) /\ ~IsFlagged(e)

(* ---- C2 ---------------------------------------------------------------- *)
\* C2 as claimed: no step deletes a user entry or a final (non-reasoning)
\* assistant answer of a turn earlier than the one being answered; only
\* reasoning placeholders may disappear.
C2_OnlyPlaceholdersDeleted ==
  [][ \A i \in 1 .. Len(messages) :
        ( \/ IsUserEntry(messages[i])
          \/ /\ IsAssistantEntry(messages[i])
             /\ ~IsFlagged(messages[i])
             /\ messages[i].turn >= 1
             /\ messages[i].turn < serverTurn' )
        => messages[i] \in Entries(messages') ]_vars

\* C2 amended: no step deletes a user entry or an entry flagged
\* chain_of_thought, and their relative order is kept; the entries a step
\* deletes are non-reasoning assistant entries (all of them on a reasoning
\* event, the last one when a final event overwrites it), the final answers
\* of earlier turns included.
C2_UserAndFlaggedEntriesKept ==
  [][ IsPrefix(SelectSeq(messages, IsRetained), SelectSeq(messages', IsRetained))
    ]_vars

C2_Witness ==
  /\ runKind = "reasoning"
  /\ Len(messages) < Len(runBase) + Len(runEvents)
  /\ \E e \in Entries(runBase) : IsUserEntry(e)
  /\ \E e \in Entries(runBase) : IsFlagged(e)
  /\ IsPrefix(SelectSeq(runBase, IsRetained), messages)

(* ---- C3 ---------------------------------------------------------------- *)
\* C3: in every reachable state the user entries of the transcript are
\* exactly the submissions made with non-blank text on an open connection,
\* in submission order.
C3_UserEntriesAreAcceptedSubmissions ==
  SelectSeq(messages, IsUserEntry) = accepted

(* ---- C4 ---------------------------------------------------------------- *)
\* C4: after a run of n >= 1 consecutive final events that began with a
\* reasoning entry last, the transcript is the one before the run plus one
\* entry, the last final event of the run.
C4_FinalRunCoalesces ==
  ( /\ runKind = "final"
    /\ runBase # <<>>
    /\ IsFlagged(runBase[Len(runBase)]) )
  => /\ messages = Append(runBase, runEvents[Len(runEvents)])
     /\ \A k \in 1 .. Len(runEvents) - 1 : runEvents[k] \notin Entries(messages)

C4_Witness ==
  /\ runKind = "final"
  /\ runBase # <<>>
  /\ IsFlagged(runBase[Len(runBase)])
  /\ Len(runEvents) >= 2

(* ---- C5 ---------------------------------------------------------------- *)
\* C5: a final event for a turn none of whose assistant entries is in the
\* transcript is appended, the entries of earlier turns left in place.
C5_FinalNeverOverwritesEarlierTurn ==
  [][ \A frame \in Frames :
        ( /\ onmessage(frame)
          /\ frame.ok
          /\ IsFinalEvent(frame.data)
          /\ \A e \in Entries(messages) : e.json = "object"
          /\ ~ \E e \in Entries(messages) :
                 IsAssistantEntry(e) /\ e.turn = frame.data.turn )
        => messages' = Append(messages, frame.data) ]_vars

(* ---- C6 ---------------------------------------------------------------- *)
\* C6: sendMessage with no open connection, or with empty or whitespace-only
\* text, appends nothing, does not set the pending flag and sends nothing.
C6_RejectedSubmitIsNoOp ==
  [][ ( /\ sendMessage
        /\ \/ ws = "null"
           \/ readyState # "OPEN"
           \/ \A i \in 1 .. Len(input) : input[i] = " " )
      => /\ messages' = messages
         /\ loading' = loading
         /\ sent' = sent ]_vars

(* ---- C7 ---------------------------------------------------------------- *)
\* C7: a frame that is not parseable as an event object (invalid JSON, or
\* JSON that is not an object, such as null) leaves the transcript as it was.
C7_MalformedFrameSkipped ==
  [][ \A frame \in Frames :
        ( /\ onmessage(frame)
          /\ (~frame.ok \/ frame.data.json # "object") )
        => messages' = messages ]_vars

(* ---- C8 ---------------------------------------------------------------- *)
\* C8: when the connection closes the pending flag is cleared and the
\* transcript is unchanged.
C8_CloseClearsPending ==
  [][ onclose => (loading' = FALSE /\ messages' = messages) ]_vars

(* ---- C9 ---------------------------------------------------------------- *)
\* C9: in every reachable state the transcript is non-empty exactly when
\* something was folded into it, and its last entry is the entry built from
\* the most recent submission or event folded in.
C9_LastEntryIsMostRecent ==
  /\ (messages = <<>>) <=> (latest = <<>>)
  /\ messages # <<>> => messages[Len(messages)] = latest[1]

C9_Witness ==
  /\ Len(messages) >= 3
  /\ accepted # <<>>
  /\ IsAssistantEntry(latest[1])
  /\ \E e \in Entries(messages) : IsFlagged(e)

(* ---- C10 --------------------------------------------------------------- *)
\* C10: a reasoning event turns the transcript into its user entries and its
\* chain_of_thought entries, in their previous order, followed by the event;
\* every other assistant entry is discarded and no user entry is lost.
C10_ReasoningEventTransform ==
  [][ \A frame \in Frames :
        ( onmessage(frame) /\ frame.ok /\ IsFlagged(frame.data) )
        => /\ messages' = SelectSeq(messages, IsRetained) \o << frame.data >>
           /\ \A i \in 1 .. Len(messages') - 1 : IsRetained(messages'[i])
           /\ SelectSeq(messages', IsUserEntry) = SelectSeq(messages, IsUserEntry)
    ]_vars

C10_Witness ==
  /\ runKind = "reasoning"
  /\ Len(runEvents) = 1
  /\ \E e \in Entries(runBase) : IsUserEntry(e)
  /\ \E e \in Entries(runBase) : IsFlagged(e)
  /\ \E e \in Entries(runBase) : IsAssistantEntry(e) /\ ~IsFlagged(e)
  /\ messages = SelectSeq(runBase, IsRetained) \o runEvents

(* ---- C11 --------------------------------------------------------------- *)
\* r is s with its leading and trailing blanks removed
IsTrimOf(r, s) ==
  /\ (r # <<>> => r[1] # " " /\ r[Len(r)] # " ")
  /\ \E i \in 0 .. Len(s) : \E j \in i .. Len(s) :
       /\ r = SubSeq(s, i + 1, j)
       /\ \A k \in (1 .. i) \cup ((j + 1) .. Len(s)) : s[k] = " "

\* C11: an accepted sendMessage (non-blank text, open connection) sends
\* exactly one request, whose user_message is the trimmed text and whose
\* search is the current toggle, sets the pending flag and clears the input.
C11_AcceptedSubmitSendsTrimmedText ==
  [][ ( /\ sendMessage
        /\ ws # "null" /\ readyState = "OPEN"
        /\ \E i \in 1 .. Len(input) : input[i] # " " )
      => /\ Len(sent') = Len(sent) + 1
         /\ SubSeq(sent', 1, Len(sent)) = sent
         /\ IsTrimOf(sent'[Len(sent')].user_message, input)
         /\ sent'[Len(sent')].search = searchEnabled
         /\ loading' = TRUE
         /\ input' = <<>> ]_vars

(* ---- C15 --------------------------------------------------------------- *)
\* C15: a final event leaves every entry but the last where it was; the
\* length is unchanged when the last entry exists, is not a user entry and
\* is not a reasoning entry (it is overwritten), and grows by one otherwise.
C15_FinalEventTouchesOnlyLastPosition ==
  [][ \A frame \in Frames :
        ( onmessage(frame) /\ frame.ok /\ IsFinalEvent(frame.data) )
        => LET n == Len(messages)
               overwrite == /\ n > 0
                            /\ ~IsUserEntry(messages[n])
                            /\ ~IsFlagged(messages[n])
           IN /\ Len(messages') = IF overwrite THEN n ELSE n + 1
              /\ \A i \in 1 .. Len(messages') - 1 : messages'[i] = messages[i]
              /\ messages'[Len(messages')] = frame.data ]_vars

C15_Witness ==
  /\ runKind = "final"
  /\ Len(runEvents) >= 2
  /\ Len(runBase) >= 2
  /\ Len(messages) = Len(runBase) + 1
  /\ SubSeq(messages, 1, Len(runBase)) = runBase

(* ---- C16 --------------------------------------------------------------- *)
\* C16: any two requests sent in one session carry different ids, also when
\* the clock did not advance between them.
C16_RequestIdsUnique ==
  \A i \in 1 .. Len(sent) : \A j \in 1 .. Len(sent) :
    i # j => sent[i].id # sent[j].id

(* ---- C17 --------------------------------------------------------------- *)
\* C17 as claimed: an entry is presented with the spinner and its reasoning
\* note exactly when its chain_of_thought flag is true.
C17_SpinnerIffFlagged ==
  \A e \in Entries(messages) :
    e.json = "object" => (ShowsSpinner(e) <=> IsFlagged(e))

\* C17 amended: an entry is presented with the spinner and its
\* chain_of_thought_message exactly when it is an assistant entry whose
\* chain_of_thought flag is false or absent; entries flagged true and user
\* entries are presented without it.
C17_SpinnerIffUnflaggedAssistant ==
  \A e \in Entries(messages) :
    e.json = "object" =>
      ( ShowsSpinner(e) <=>
          (~IsUserEntry(e) /\ e.chain_of_thought \in { "false", "absent" }) )

C17_Witness ==
  /\ \E e \in Entries(messages) : IsUserEntry(e) /\ ~ShowsSpinner(e)
  /\ \E e \in Entries(messages) : IsFlagged(e) /\ ~ShowsSpinner(e)
  /\ \E e \in Entries(messages) : IsFinalEvent(e) /\ ShowsSpinner(e)

(* ---- C20 --------------------------------------------------------------- *)
\* C20: no two adjacent entries of the transcript are both non-reasoning
\* assistant entries: each such entry is first or follows a user entry or a
\* reasoning entry.
C20_NoAdjacentFinalEntries ==
  \A i \in 1 .. Len(messages) :
    (~IsUserEntry(messages[i]) /\ ~IsFlagged(messages[i]))
    => \/ i = 1
       \/ IsUserEntry(messages[i - 1])
       \/ IsFlagged(messages[i - 1])

C20_Witness ==
  /\ Len(SelectSeq(messages, IsFinalEvent)) >= 2
  /\ \E e \in Entries(messages) : IsFlagged(e)

(* ---- C12 --------------------------------------------------------------- *)
\* the operations of a log applied one after the other to the empty transcript
RECURSIVE SequentialFold(_)
SequentialFold(ops) ==
  IF ops = <<>> THEN <<>>
  ELSE LET before == SequentialFold(SubSeq(ops, 1, Len(ops) - 1))
           o == ops[Len(ops)]
       IN IF o.op = "append" THEN Append(before, o.arg)
          ELSE Reduce(before, o.arg)

\* C12: whatever the interleaving of submissions, events and renders, the
\* transcript with the queued updates applied is the sequential fold of all
\* submissions and events in the order they were processed; once nothing is
\* queued the transcript itself is that fold, so no update is lost or applied
\* to a stale transcript.
C12_TranscriptIsSequentialFold ==
  /\ ApplyQueue(messages, queue) = SequentialFold(log)
  /\ queue = <<>> => messages = SequentialFold(log)

C12_Witness ==
  /\ Len(queue) >= 2
  /\ \E i \in 1 .. Len(queue) : queue[i].op = "append"
  /\ \E i \in 1 .. Len(queue) : queue[i].op = "reduce"
  /\ messages # <<>>
  /\ Len(log) >= 3

(* ---- C13 --------------------------------------------------------------- *)
\* C13: every chunk of every line is emitted as an emphasized segment holding
\* the chunk without its delimiters when it begins and ends with "**" and has
\* length >= 4, and as a plain segment holding the chunk verbatim otherwise.
C13_EmphasisNeedsFourCharacters ==
  rendered =>
    \A i \in 1 .. Len(rows) :
      LET chunks == SplitChunks(SplitLines(rawText)[i])
      IN /\ Len(rows[i]) = Len(chunks)
         /\ \A j \in 1 .. Len(chunks) :
              LET c == chunks[j]
                  delimited == /\ Len(c) >= 4
                               /\ c[1] = "*" /\ c[2] = "*"
                               /\ c[Len(c) - 1] = "*" /\ c[Len(c)] = "*"
              IN rows[i][j] =
                   IF delimited
                   THEN [ kind |-> "strong", text |-> SubSeq(c, 3, Len(c) - 2) ]
                   ELSE [ kind |-> "text", text |-> c ]

(* ---- C19 --------------------------------------------------------------- *)
Breaks(t) == { k \in 1 .. Len(t) : t[k] = "\n" }
\* the i-th line of t: the text between its (i-1)-th and its i-th line break
LineOf(t, i) ==
  LET before == { k \in Breaks(t) : Cardinality({ b \in Breaks(t) : b <= k }) = i - 1 }
      after == { k \in Breaks(t) : Cardinality({ b \in Breaks(t) : b <= k }) = i }
      from == IF before = {} THEN 1 ELSE (CHOOSE k \in before : TRUE) + 1
      to == IF after = {} THEN Len(t) ELSE (CHOOSE k \in after : TRUE) - 1
  IN SubSeq(t, from, to)
\* the characters a row shows, its segments one after the other
RECURSIVE RowText(_)
RowText(row) ==
  IF row = <<>> THEN <<>> ELSE Head(row).text \o RowText(Tail(row))
Letters(t) == SelectSeq(t, LAMBDA ch : ch # "*")

\* C19: formatMessage returns one row per line of its input, empty lines
\* included and in line order: k line breaks give k + 1 rows, and row i
\* shows the text of line i (its delimiters apart) and of no other line.
C19_OneRowPerLine ==
  rendered =>
    /\ Len(rows) = Cardinality(Breaks(rawText)) + 1
    /\ \A i \in 1 .. Len(rows) :
         /\ Letters(RowText(rows[i])) = Letters(LineOf(rawText, i))
         /\ \A j \in 1 .. Len(rows[i]) :
              \A k \in 1 .. Len(rows[i][j].text) : rows[i][j].text[k] # "\n"

C19_Witness ==
  /\ rendered
  /\ Len(rows) >= 3
  /\ \E i \in 1 .. Len(rows) : RowText(rows[i]) = <<>>
  /\ \E i \in 1 .. Len(rows) : RowText(rows[i]) # <<>>

(* ---- C14 --------------------------------------------------------------- *)
NonNullItems(c) == SelectSeq(results[c].items, LAMBDA it : it.json = "object")
BlocksOf(c) == SelectSeq(view, LAMBDA b : b.category = Categories[c])

\* C14: the view shows a category exactly when its items are non-empty once
\* the null entries are removed, and shows one card per non-null item.
C14_CategoryShownIffNonNullItems ==
  shaped =>
    \A c \in 1 .. Len(Categories) :
      /\ Len(BlocksOf(c)) = IF NonNullItems(c) # <<>> THEN 1 ELSE 0
      /\ \A b \in Entries(BlocksOf(c)) : Len(b.cards) = Len(NonNullItems(c))

(* ---- C18 --------------------------------------------------------------- *)
\* C18: every card shows at most one image: the item's image if present,
\* else the first of its thumbnails if it has any, else none.
C18_OneImagePerItem ==
  shaped =>
    \A c \in 1 .. Len(Categories) :
      \A b \in Entries(BlocksOf(c)) :
        \A k \in 1 .. Len(b.cards) :
          LET it == NonNullItems(c)[k]
          IN b.cards[k].images =
               IF it.image # "" THEN << it.image >>
               ELSE IF it.thumbnails # <<>> THEN << it.thumbnails[1] >>
               ELSE <<>>

====
